---- MODULE Spec2Model ----
(***************************************************************************)
(* Model of the tap-tap monitoring engine (src/src/services/               *)
(* latency-tester.ts and src/src/services/grafana.ts).                     *)
(*                                                                         *)
(* Four specifications share the module:                                    *)
(*   SpecProbe  one call of LatencyTester.performTest, one step per        *)
(*              attempt of its retry loop, the target's behaviour chosen    *)
(*              per attempt;                                                *)
(*   Spec       the scheduler: startMonitoring, stopMonitoring, close, the *)
(*              setInterval callbacks and the cycles (testEndpoint) they   *)
(*              start, one step per await at which the event loop can run  *)
(*              something else;                                            *)
(*   SpecAlert  the alert thresholds and their evaluation: setAlertThreshold,*)
(*              removeAlertThreshold, and the tail of testEndpoint from    *)
(*              storeResult to sendAlert, with the latencies the window    *)
(*              query averages;                                            *)
(*   SpecThreshold  setAlertThreshold and removeAlertThreshold alone;      *)
(*   SpecRace   setAlertThreshold and removeAlertThreshold while cycles of *)
(*              a monitored endpoint are in flight;                        *)
(*   SpecLive   the scheduler with timers that fire for ever, under        *)
(*              fairness; SpecProbeFair is SpecProbe under fairness.       *)
(***************************************************************************)
EXTENDS Integers, Sequences, FiniteSets, TLC

VARIABLES
    probe,          \* SpecProbe: the running performTest call
    activeTests,    \* LatencyTester.activeTests: url -> timer id
    timers,         \* the runtime's armed setInterval timers, with their closures
    started,        \* number of testEndpoint calls made so far
    cycles,         \* the testEndpoint calls in flight, in call order
    latency_tests,  \* rows of the latency_tests table
    now,            \* wall clock (ms ticks) read by new Date()
    lastEvent,      \* what the last step delivered to a caller: the outcome
                    \* of a management call or of a testEndpoint promise
                    \* settling, NoEvent when it delivered nothing
    alertThresholds,    \* LatencyTester.alertThresholds: endpoint -> AlertThreshold
    alert_thresholds,   \* rows of the alert_thresholds table
    lateWrites      \* per url, the rows written for it since its session was
                    \* last stopped (history variable, counts up to 2)

vars == <<probe, activeTests, timers, started, cycles, latency_tests, now, lastEvent,
          alertThresholds, alert_thresholds, lateWrites>>

alertVars == <<alertThresholds, alert_thresholds>>

schedVars == <<activeTests, timers, started, cycles, latency_tests, now, lastEvent,
               alertThresholds, alert_thresholds, lateWrites>>

(***************************************************************************)
(* Bounds of the model.                                                    *)
(***************************************************************************)
MaxRetry == 2       \* retryCount ranges over 0..MaxRetry in SpecProbe
MaxCycles == 2      \* testEndpoint calls in one behaviour of Spec
MaxTime == 1        \* clock ticks in one behaviour of Spec
AlertMaxTime == 2   \* clock ticks in one behaviour of SpecAlert

Urls == {"u1", "u2"}

(***************************************************************************)
(* The target's behaviour on one attempt: fetch rejects (network error, or *)
(* the abort timer fired), or it resolves with a response, whose body is   *)
(* JSON the validator may like ("good") or not ("bad"), is not JSON, or    *)
(* never arrives ("stalled": the target stops after the headers).          *)
(***************************************************************************)
Statuses == {200, 404, 500}
Bodies == {"good", "bad", "nonjson", "stalled"}

NoResponse(kind) == [kind |-> kind, status |-> 0, body |-> "none"]

Outcomes ==
    {NoResponse("neterr"), NoResponse("timeout")}
    \cup {[kind |-> "response", status |-> s, body |-> b] : s \in Statuses, b \in Bodies}

(***************************************************************************)
(* MonitoringOptions, the fields performTest reads.  expectedStatusCode 0  *)
(* stands for every falsy value (undefined, 0): the code tests its truth.  *)
(* validateResponse is "none" (undefined) or one of four predicates.       *)
(***************************************************************************)
Validators == {"none", "acceptAll", "rejectAll", "throws", "bodyGood"}

MonitoringOptions ==
    [retryCount : 0..MaxRetry, expectedStatusCode : {0, 200, 404},
     validateResponse : Validators]

\* response.ok
ResponseOk(status) == status >= 200 /\ status =< 299

\* options.expectedStatusCode ? response.status === options.expectedStatusCode : response.ok
StatusMatches(options, status) ==
    IF options.expectedStatusCode # 0
    THEN status = options.expectedStatusCode
    ELSE ResponseOk(status)

\* await options.validateResponse(await response.clone().json()):
\* "true", "false", "throws" (json() rejects, or the validator throws), or
\* "pending" (json() never settles: clearTimeout at line 83 has disarmed the
\* abort timer before the body is read)
Validate(options, body) ==
    CASE body = "stalled" -> "pending"
      [] body = "nonjson" -> "throws"
      [] options.validateResponse = "acceptAll" -> "true"
      [] options.validateResponse = "rejectAll" -> "false"
      [] options.validateResponse = "throws" -> "throws"
      [] OTHER -> IF body = "good" THEN "true" ELSE "false"

\* mutant: a response with the wrong status raises as well
AttemptRaisesOnMismatch(options, o) ==
    \/ o.kind # "response"
    \/ ~StatusMatches(options, o.status)
    \/ /\ options.validateResponse # "none"
       /\ Validate(options, o.body) = "throws"

\* the attempt leaves the try block through an exception
AttemptRaises(options, o) ==
    \/ o.kind # "response"
    \/ /\ StatusMatches(options, o.status)
       /\ options.validateResponse # "none"
       /\ Validate(options, o.body) = "throws"

\* the attempt never leaves line 91: the body is awaited with no timer armed
AttemptHangs(options, o) ==
    /\ o.kind = "response"
    /\ StatusMatches(options, o.status)
    /\ options.validateResponse # "none"
    /\ Validate(options, o.body) = "pending"

\* mutant: the validator's verdict is ignored
AttemptSuccessIgnoresValidator(options, o) ==
    o.kind = "response" /\ StatusMatches(options, o.status)

\* the value of `success` when no exception is raised
AttemptSuccess(options, o) ==
    /\ o.kind = "response"
    /\ StatusMatches(options, o.status)
    /\ (options.validateResponse = "none" \/ Validate(options, o.body) = "true")

(***************************************************************************)
(* performTest as a state machine.  pc: "idle" (not called), "fetch"       *)
(* (awaiting fetch), "readingBody" (awaiting response.clone().json()),     *)
(* "retryDelay" (awaiting the 1000 ms sleep), "returned", "thrown" (the    *)
(* throw after the loop).                                                  *)
(***************************************************************************)
IdleProbe ==
    [pc |-> "idle", options |-> [retryCount |-> 0, expectedStatusCode |-> 0,
                                 validateResponse |-> "none"],
     currentTry |-> 0, maxTries |-> 1, log |-> <<>>, status |-> 0, success |-> FALSE]

\* lines 65-69: currentTry = 0, maxTries = retryCount + 1, first fetch issued
InitProbe(options) ==
    [pc |-> "fetch", options |-> options, currentTry |-> 0,
     maxTries |-> options.retryCount + 1, log |-> <<>>,
     status |-> 0, success |-> FALSE]

\* mutant: the catch block compares with > instead of ===
CatchOffByOne(currentTry, maxTries) == currentTry > maxTries

\* currentTry === maxTries, the catch block's test that ends the probe
LastTry(currentTry, maxTries) == currentTry = maxTries

\* one attempt: the fetch settles as o, then lines 83-99 or the catch block
AttemptStep(p, o) ==
    LET q == [p EXCEPT !.log = Append(p.log, o)] IN
    IF AttemptHangs(p.options, o)
    THEN [q EXCEPT !.pc = "readingBody"]
    ELSE IF AttemptRaises(p.options, o)
    THEN LET t == p.currentTry + 1 IN
         IF LastTry(t, p.maxTries)
         THEN [q EXCEPT !.currentTry = t, !.pc = "returned",
                        !.status = 0, !.success = FALSE]
         ELSE [q EXCEPT !.currentTry = t, !.pc = "retryDelay"]
    ELSE [q EXCEPT !.pc = "returned", !.status = o.status,
                   !.success = AttemptSuccess(p.options, o)]

\* the sleep ends: back to the loop head, line 69
RetryDelayStep(p) ==
    [p EXCEPT !.pc = IF p.currentTry < p.maxTries THEN "fetch" ELSE "thrown"]

\* performTest run to its end against the attempts' outcomes, in order
RECURSIVE RunProbe(_, _)
RunProbe(p, outs) ==
    IF p.pc = "retryDelay" THEN RunProbe(RetryDelayStep(p), outs)
    ELSE IF p.pc # "fetch" \/ outs = <<>> THEN p
    ELSE RunProbe(AttemptStep(p, Head(outs)), Tail(outs))

(***************************************************************************)
(* Scheduler state after construction.                                      *)
(***************************************************************************)
\* what a management call did: op "start" / "stop" / "close", outcome
\* "promise" (startMonitoring returned testEndpoint's promise), "ok", or the
\* error thrown
CallEvent(op, url, outcome) ==
    [kind |-> op, url |-> url, outcome |-> outcome, origin |-> "none",
     stored |-> "no", pushed |-> "no", evaluated |-> FALSE, notified |-> "no",
     timestamp |-> 0, alerts |-> <<>>, notifications |-> <<>>, seen |-> {}]

\* how the promise of cycle c settled: outcome "resolved" / "rejected", and
\* which of storeResult, pushMetrics, checkAlertThresholds and sendAlert ran,
\* and how ("no", "ok", "failed")
SettleEvent(c, outcome, stored, pushed, evaluated, notified) ==
    [kind |-> "cycle", url |-> c.url, outcome |-> outcome, origin |-> c.origin,
     stored |-> stored, pushed |-> pushed, evaluated |-> evaluated,
     notified |-> notified, timestamp |-> 0, alerts |-> <<>>, notifications |-> <<>>,
     seen |-> {}]

NoEvent == CallEvent("none", "none", "none")

SchedInit ==
    /\ activeTests = <<>>
    /\ timers = {}
    /\ started = 0
    /\ cycles = <<>>
    /\ latency_tests = {}
    /\ now = 0
    /\ lastEvent = NoEvent
    /\ lateWrites = [u \in Urls |-> 0]

(***************************************************************************)
(* Alert thresholds.  An optional number (maxLatency?, max_latency NULL)   *)
(* is undefined, null or a number; an optional string is the string, or    *)
(* "undefined" or "null".  minSuccessRate is kept in percent, so that 0.9  *)
(* is Num(90) and a rate k/n is compared as k * 100 against it times n.    *)
(***************************************************************************)
Undefined == [kind |-> "undefined", value |-> 0]

Null == [kind |-> "null", value |-> 0]

Num(n) == [kind |-> "number", value |-> n]

\* x ?? y, on optional numbers and on optional strings
Coalesce(x, y) == IF x.kind \in {"undefined", "null"} THEN y ELSE x

CoalesceStr(x, y) == IF x \in {"undefined", "null"} THEN y ELSE x

\* the truth value of an optional number and of an optional string, as the
\* conditions `threshold.maxLatency &&` and `&& threshold.notificationUrl` take it
Truthy(x) == x.kind = "number" /\ x.value # 0

TruthyStr(x) == x \notin {"undefined", "null", ""}

AlertThreshold(endpoint, maxLatency, minSuccessRate, windowSize, notificationUrl) ==
    [endpoint |-> endpoint, maxLatency |-> maxLatency,
     minSuccessRate |-> minSuccessRate, windowSize |-> windowSize,
     notificationUrl |-> notificationUrl]

\* the thresholds set in this model, for an endpoint.  setAlertThreshold
\* checks nothing, so a window size below zero is stored like any other: its
\* window starts after the result evaluated and holds no row
ThresholdsFor(endpoint) ==
    {AlertThreshold(endpoint, Num(200), Undefined, 2, "hook"),
     AlertThreshold(endpoint, Num(300), Num(50), 1, "hook"),
     AlertThreshold(endpoint, Undefined, Num(50), 2, "undefined"),
     AlertThreshold(endpoint, Num(200), Num(50), -1, "hook")}

\* the row setAlertThreshold writes: threshold.maxLatency ?? null, ...
ThresholdRow(threshold) ==
    [endpoint |-> threshold.endpoint,
     max_latency |-> Coalesce(threshold.maxLatency, Null),
     min_success_rate |-> Coalesce(threshold.minSuccessRate, Null),
     window_size |-> threshold.windowSize,
     notification_url |-> CoalesceStr(threshold.notificationUrl, "null")]

\* the threshold loadAlertThresholds builds from a row: max_latency ?? undefined, ...
LoadedThreshold(row) ==
    AlertThreshold(row.endpoint,
                   Coalesce(row.max_latency, Undefined),
                   Coalesce(row.min_success_rate, Undefined),
                   row.window_size,
                   CoalesceStr(row.notification_url, "undefined"))

\* loadAlertThresholds(): the map built from the rows of alert_thresholds
loadAlertThresholds(rows) ==
    [e \in {r.endpoint : r \in rows} |->
        LoadedThreshold(CHOOSE r \in rows : r.endpoint = e)]

\* the contents of alert_thresholds found at construction
StoredThresholds ==
    {{}, {ThresholdRow(AlertThreshold("u2", Undefined, Num(50), 2, "hook"))}}

\* getAlertThreshold(endpoint): the set holding the threshold, empty for undefined
getAlertThreshold(endpoint) ==
    {alertThresholds[e] : e \in {endpoint} \cap DOMAIN alertThresholds}

\* INSERT OR REPLACE under PRIMARY KEY (endpoint)
UpsertThreshold(rows, row) == {r \in rows : r.endpoint # row.endpoint} \cup {row}

\* DELETE FROM alert_thresholds WHERE endpoint = ?
DeleteThreshold(rows, endpoint) == {r \in rows : r.endpoint # endpoint}

\* mutant: an existing threshold is kept, the new one is dropped
setAlertThresholdKeepsFirst(threshold, dbOk) ==
    /\ alertThresholds' =
          [e \in DOMAIN alertThresholds \cup {threshold.endpoint} |->
              IF e \in DOMAIN alertThresholds THEN alertThresholds[e] ELSE threshold]
    /\ UNCHANGED alert_thresholds
    /\ lastEvent' = CallEvent("setAlertThreshold", threshold.endpoint, "ok")
    /\ UNCHANGED <<probe, activeTests, timers, started, cycles, latency_tests, now,
                   lateWrites>>

\* setAlertThreshold(threshold): the map is set first, then the row is written;
\* when the write throws (dbOk false) the call throws with the map already
\* changed
setAlertThreshold(threshold, dbOk) ==
    /\ alertThresholds' =
          [e \in DOMAIN alertThresholds \cup {threshold.endpoint} |->
              IF e = threshold.endpoint THEN threshold ELSE alertThresholds[e]]
    /\   IF dbOk
         THEN /\ alert_thresholds' = UpsertThreshold(alert_thresholds, ThresholdRow(threshold))
              /\ lastEvent' = CallEvent("setAlertThreshold", threshold.endpoint, "ok")
         ELSE /\ UNCHANGED alert_thresholds
              /\ lastEvent' = CallEvent("setAlertThreshold", threshold.endpoint, "db error")
    /\ UNCHANGED <<probe, activeTests, timers, started, cycles, latency_tests, now,
                   lateWrites>>

\* removeAlertThreshold(endpoint): the map entry is deleted first, then the row
removeAlertThreshold(endpoint, dbOk) ==
    /\ alertThresholds' =
          [e \in DOMAIN alertThresholds \ {endpoint} |-> alertThresholds[e]]
    /\   IF dbOk
         THEN /\ alert_thresholds' = DeleteThreshold(alert_thresholds, endpoint)
              /\ lastEvent' = CallEvent("removeAlertThreshold", endpoint, "ok")
         ELSE /\ UNCHANGED alert_thresholds
              /\ lastEvent' = CallEvent("removeAlertThreshold", endpoint, "db error")
    /\ UNCHANGED <<probe, activeTests, timers, started, cycles, latency_tests, now,
                   lateWrites>>

(***************************************************************************)
(* checkAlertThresholds(result).                                           *)
(***************************************************************************)
\* the rows of the window query: endpoint = ? AND timestamp >= ?
Window(rows, endpoint, windowStart) ==
    {r \in rows : r.endpoint = endpoint /\ r.timestamp >= windowStart}

RECURSIVE SumLatency(_)
SumLatency(rows) ==
    IF rows = {} THEN 0
    ELSE LET r == CHOOSE x \in rows : TRUE IN r.latency + SumLatency(rows \ {r})

\* the aggregates of the query, AVG(latency) as sum / count and the success
\* rate as successes / count; both are NULL when count = 0
recentTests(rows, endpoint, windowStart) ==
    LET w == Window(rows, endpoint, windowStart) IN
    [count |-> Cardinality(w), sum |-> SumLatency(w),
     successes |-> Cardinality({r \in w : r.success})]

\* mutant: the latency comparison is not strict
LatencyBreachAtLimit(threshold, recent) ==
    /\ Truthy(threshold.maxLatency)
    /\ recent.sum >= threshold.maxLatency.value * recent.count

\* threshold.maxLatency && recentTests.avg_latency > threshold.maxLatency
\* (a NULL average compares as 0)
LatencyBreach(threshold, recent) ==
    /\ Truthy(threshold.maxLatency)
    /\ IF recent.count = 0
       THEN 0 > threshold.maxLatency.value
       ELSE recent.sum > threshold.maxLatency.value * recent.count

\* mutant: the success-rate comparison is not strict
SuccessRateBreachAtLimit(threshold, recent) ==
    /\ Truthy(threshold.minSuccessRate)
    /\ recent.successes * 100 =< threshold.minSuccessRate.value * recent.count

\* threshold.minSuccessRate && recentTests.success_rate < threshold.minSuccessRate
\* (a NULL rate compares as 0)
SuccessRateBreach(threshold, recent) ==
    /\ Truthy(threshold.minSuccessRate)
    /\ IF recent.count = 0
       THEN 0 < threshold.minSuccessRate.value
       ELSE recent.successes * 100 < threshold.minSuccessRate.value * recent.count

\* the alerts array after both tests
Alerts(threshold, recent) ==
    (IF LatencyBreach(threshold, recent) THEN <<"High latency">> ELSE <<>>)
    \o (IF SuccessRateBreach(threshold, recent) THEN <<"Low success rate">> ELSE <<>>)

\* mutant: one notification per alert message
NotificationPerAlert(endpoint, alerts, notificationUrl) ==
    [k \in 1..(IF TruthyStr(notificationUrl) THEN Len(alerts) ELSE 0) |->
        [endpoint |-> endpoint, alerts |-> <<alerts[k]>>, webhookUrl |-> notificationUrl]]

\* the sendAlert calls of one checkAlertThresholds: none, or one with the
\* endpoint and all alerts
Notifications(endpoint, alerts, notificationUrl) ==
    IF Len(alerts) > 0 /\ TruthyStr(notificationUrl)
    THEN <<[endpoint |-> endpoint, alerts |-> alerts, webhookUrl |-> notificationUrl]>>
    ELSE <<>>

\* checkAlertThresholds(result) up to its await of sendAlert: the alerts
\* array and the sendAlert calls made
checkAlertThresholds(endpoint, timestamp) ==
    IF endpoint \notin DOMAIN alertThresholds
    THEN [alerts |-> <<>>, notifications |-> <<>>]
    ELSE LET threshold == alertThresholds[endpoint]
             recent == recentTests(latency_tests, endpoint,
                                   timestamp - threshold.windowSize)
             alerts == Alerts(threshold, recent)
         IN [alerts |-> alerts,
             notifications |->
                 Notifications(endpoint, alerts, threshold.notificationUrl)]

\* what checkAlertThresholds did for the result of cycle c: kind "evaluate"
\* while the call awaits sendAlert, kind "cycle" when testEndpoint resolved;
\* `seen` is the history of c, when the beginning of the call was modelled
EvalEvent(c, kind, outcome, found) ==
    [SettleEvent(c, outcome, "ok", "ok", TRUE, "no") EXCEPT
        !.kind = kind, !.timestamp = c.timestamp, !.alerts = found.alerts,
        !.notifications = found.notifications,
        !.seen = IF "seen" \in DOMAIN c THEN c.seen ELSE {}]

(***************************************************************************)
(* The scheduler.  Sessions are started with one of SchedOptions.  The     *)
(* endpoint u1 is up (every attempt gets a 200 response), the endpoint u2  *)
(* is down (every attempt meets a network error).                          *)
(***************************************************************************)
SchedOptions ==
    {[retryCount |-> 0, expectedStatusCode |-> 0, validateResponse |-> "none"],
     [retryCount |-> 1, expectedStatusCode |-> 200, validateResponse |-> "none"]}

TargetOutcomes(url) ==
    IF url = "u1"
    THEN {[kind |-> "response", status |-> 200, body |-> "good"]}
    ELSE {NoResponse("neterr")}

RECURSIVE OutcomeSeqs(_, _)
OutcomeSeqs(url, n) ==
    IF n = 0 THEN {<<>>}
    ELSE {<<o>> \o s : o \in TargetOutcomes(url), s \in OutcomeSeqs(url, n - 1)}

\* every way performTest(url, options) can end against the target of url
ProbeResults(url, options) ==
    {[status |-> p.status, success |-> p.success, thrown |-> p.pc = "thrown"] :
        p \in {RunProbe(InitProbe(options), outs) :
                 outs \in OutcomeSeqs(url, options.retryCount + 1)}}

\* mutant: the duplicate check is missing
NeverMonitoring(url) == FALSE

\* this.activeTests.has(url)
AlreadyMonitoring(url) == url \in DOMAIN activeTests

\* setInterval(...): a timer object distinct from every live one
NewTimer ==
    CHOOSE id \in 1..(MaxCycles + 1) :
        /\ \A t \in timers : t.id # id
        /\ \A u \in DOMAIN activeTests : activeTests[u] # id
        /\ \A j \in 1..(id - 1) :
             \/ \E t \in timers : t.id = j
             \/ \E u \in DOMAIN activeTests : activeTests[u] = j

\* mutant: clearInterval has no effect
ClearIntervalNoop(ts, id) == ts

\* clearInterval(timer)
ClearInterval(ts, id) == {t \in ts : t.id # id}

\* this.activeTests.delete(url)
DeleteSession(at, url) == [u \in DOMAIN at \ {url} |-> at[u]]

\* a testEndpoint call that has run up to its first await (the fetch of the
\* first attempt).  `seen` is history: the threshold of url when the call began
NewCycle(url, options, origin) ==
    [url |-> url, origin |-> origin, pc |-> "probing", options |-> options,
     seen |-> getAlertThreshold(url)]

\* the same call once performTest has returned at `timestamp`, storeResult has
\* written the row and pushMetrics awaits its fetch
PushingCycle(c, timestamp) ==
    [url |-> c.url, origin |-> c.origin, pc |-> "pushing", timestamp |-> timestamp,
     seen |-> c.seen]

\* the same call once checkAlertThresholds has found a breach and sendAlert
\* awaits the webhook's fetch
AlertingCycle(c) == [url |-> c.url, origin |-> c.origin, pc |-> "alerting"]

\* performance.now() differences: the up endpoint answers in 100 ms, the
\* attempts on the down endpoint take 500 ms
TargetLatency(url) == IF url = "u1" THEN 100 ELSE 500

\* mutant: the initial test is started, the session is neither armed nor
\* recorded yet
startMonitoringLate(url, options) ==
    IF AlreadyMonitoring(url)
    THEN /\ lastEvent' = CallEvent("start", url, "already monitoring")
         /\ UNCHANGED <<probe, activeTests, timers, started, cycles,
                        latency_tests, now, lateWrites>>
    ELSE /\ started < MaxCycles
         /\ cycles' = Append(cycles, NewCycle(url, options, "initial"))
         /\ started' = started + 1
         /\ lastEvent' = CallEvent("start", url, "promise")
         /\ UNCHANGED <<probe, activeTests, timers, latency_tests, now, lateWrites>>

\* startMonitoring(url, options): throws when a session exists; otherwise arms
\* the timer, records it and calls testEndpoint for the initial test
startMonitoring(url, options) ==
    IF AlreadyMonitoring(url)
    THEN /\ lastEvent' = CallEvent("start", url, "already monitoring")
         /\ UNCHANGED <<probe, activeTests, timers, started, cycles,
                        latency_tests, now, lateWrites>>
    ELSE /\ started < MaxCycles
         /\ timers' = timers \cup {[id |-> NewTimer, url |-> url, options |-> options]}
         /\ activeTests' = [u \in DOMAIN activeTests \cup {url} |->
                              IF u = url THEN NewTimer ELSE activeTests[u]]
         /\ cycles' = Append(cycles, NewCycle(url, options, "initial"))
         /\ started' = started + 1
         /\ lastEvent' = CallEvent("start", url, "promise")
         /\ UNCHANGED <<probe, latency_tests, now, lateWrites>>

\* history: the sessions of `stopped` end now, no row has been written for
\* them since
StoppedWrites(stopped) == [u \in Urls |-> IF u \in stopped THEN 0 ELSE lateWrites[u]]

\* history: a row has been written for url; it counts when url has no session
WrittenFor(url) ==
    [lateWrites EXCEPT ![url] =
        IF url \in DOMAIN activeTests \/ @ = 2 THEN @ ELSE @ + 1]

\* mutant: the session entry is deleted, its timer is not cleared
stopMonitoringKeepsTimer(url) ==
    /\ activeTests' = DeleteSession(activeTests, url)
    /\ lastEvent' = CallEvent("stop", url, "ok")
    /\ lateWrites' = StoppedWrites({url} \cap DOMAIN activeTests)
    /\ UNCHANGED <<probe, timers, started, cycles, latency_tests, now>>

\* mutant: stopping an endpoint that has no session is an error
stopMonitoringStrict(url) ==
    /\ IF url \in DOMAIN activeTests
       THEN /\ timers' = ClearInterval(timers, activeTests[url])
            /\ activeTests' = DeleteSession(activeTests, url)
            /\ lastEvent' = CallEvent("stop", url, "ok")
       ELSE /\ lastEvent' = CallEvent("stop", url, "not monitoring")
            /\ UNCHANGED <<activeTests, timers>>
    /\ lateWrites' = StoppedWrites({url} \cap DOMAIN activeTests)
    /\ UNCHANGED <<probe, started, cycles, latency_tests, now>>

\* stopMonitoring(url)
stopMonitoring(url) ==
    /\ IF url \in DOMAIN activeTests
       THEN /\ timers' = ClearInterval(timers, activeTests[url])
            /\ activeTests' = DeleteSession(activeTests, url)
       ELSE UNCHANGED <<activeTests, timers>>
    /\ lastEvent' = CallEvent("stop", url, "ok")
    /\ lateWrites' = StoppedWrites({url} \cap DOMAIN activeTests)
    /\ UNCHANGED <<probe, started, cycles, latency_tests, now>>

\* close(): clears every recorded timer, then the table
close ==
    /\ timers' = {t \in timers : \A u \in DOMAIN activeTests : activeTests[u] # t.id}
    /\ activeTests' = <<>>
    /\ lastEvent' = CallEvent("close", "none", "ok")
    /\ lateWrites' = StoppedWrites(DOMAIN activeTests)
    /\ UNCHANGED <<probe, started, cycles, latency_tests, now>>

\* an armed timer fires: its callback calls testEndpoint(url, normalizedOptions)
timerFires(t) ==
    /\ t \in timers
    /\ started < MaxCycles
    /\ cycles' = Append(cycles, NewCycle(t.url, t.options, "timer"))
    /\ started' = started + 1
    /\ lastEvent' = NoEvent
    /\ UNCHANGED <<probe, activeTests, timers, latency_tests, now, lateWrites>>

\* mutant: a plain INSERT without the unique index
InsertOnly(rows, row) == rows \cup {row}

\* INSERT OR REPLACE under UNIQUE(timestamp, endpoint)
InsertOrReplace(rows, row) ==
    {r \in rows : ~(r.timestamp = row.timestamp /\ r.endpoint = row.endpoint)}
    \cup {row}

\* the in-flight calls without the i-th, whose promise has settled
DropCycle(i) == SubSeq(cycles, 1, i - 1) \o SubSeq(cycles, i + 1, Len(cycles))

\* mutant: a failed cycle stops the monitoring of its endpoint
cycleRejectsAndStops(i, stored, pushed) ==
    /\ cycles' = DropCycle(i)
    /\ lastEvent' = SettleEvent(cycles[i], "rejected", stored, pushed, FALSE, "no")
    /\ timers' = {t \in timers : t.url # cycles[i].url}
    /\ activeTests' = DeleteSession(activeTests, cycles[i].url)

\* mutant: a failing step is hidden, the promise resolves
cycleResolvesQuietly(i, stored, pushed) ==
    /\ cycles' = DropCycle(i)
    /\ lastEvent' = SettleEvent(cycles[i], "resolved", stored, pushed, FALSE, "no")
    /\ UNCHANGED <<activeTests, timers>>

\* mutant: a failed cycle disarms the timer of its endpoint
cycleRejectsAndDisarms(i, stored, pushed) ==
    /\ cycles' = DropCycle(i)
    /\ lastEvent' = SettleEvent(cycles[i], "rejected", stored, pushed, FALSE, "no")
    /\ timers' = {t \in timers : t.url # cycles[i].url}
    /\ UNCHANGED activeTests

\* the promise of testEndpoint rejects for the i-th call in flight: Start's
\* caller gets the error of an initial cycle, the timer callback logs it
\* (.catch(console.error)); the session table and the timers are not touched
cycleRejects(i, stored, pushed) ==
    /\ cycles' = DropCycle(i)
    /\ lastEvent' = SettleEvent(cycles[i], "rejected", stored, pushed, FALSE, "no")
    /\ UNCHANGED <<activeTests, timers>>

\* performTest settles for the i-th call in flight, then storeResult runs and
\* pushMetrics issues its fetch
probeSettles(i) ==
    /\ i \in 1..Len(cycles)
    /\ cycles[i].pc = "probing"
    /\ \E r \in ProbeResults(cycles[i].url, cycles[i].options), storeOk \in BOOLEAN :
         IF r.thrown
         THEN /\ cycleRejects(i, "no", "no")
              /\ UNCHANGED <<latency_tests, lateWrites>>
         ELSE IF storeOk
         THEN /\ latency_tests' = InsertOrReplace(latency_tests,
                     [timestamp |-> now, endpoint |-> cycles[i].url,
                      latency |-> TargetLatency(cycles[i].url),
                      status |-> r.status, success |-> r.success])
              /\ lateWrites' = WrittenFor(cycles[i].url)
              /\ cycles' = [cycles EXCEPT ![i] = PushingCycle(@, now)]
              /\ lastEvent' = NoEvent
              /\ UNCHANGED <<activeTests, timers>>
         ELSE /\ cycleRejects(i, "failed", "no")
              /\ UNCHANGED <<latency_tests, lateWrites>>
    /\ UNCHANGED <<probe, started, now>>

\* pushMetrics' fetch settles for the i-th call in flight: on a network error
\* or a non-ok response pushMetrics logs and rethrows; otherwise
\* checkAlertThresholds runs on the result, against the threshold and the rows
\* present now: with a notification to send the call awaits sendAlert's fetch,
\* without one the promise of testEndpoint resolves
\* mutant: the result of cycle c is judged by the threshold its call saw
\* when it began
EvaluateCycleAsSeen(c) ==
    IF c.seen = {}
    THEN [alerts |-> <<>>, notifications |-> <<>>]
    ELSE LET threshold == CHOOSE t \in c.seen : TRUE
             alerts == Alerts(threshold,
                              recentTests(latency_tests, c.url,
                                          c.timestamp - threshold.windowSize))
         IN [alerts |-> alerts,
             notifications |->
                 Notifications(c.url, alerts, threshold.notificationUrl)]

\* testEndpoint's `await this.checkAlertThresholds(result)` for cycle c
EvaluateCycle(c) ==
    checkAlertThresholds(c.url, c.timestamp)

pushSettles(i) ==
    /\ i \in 1..Len(cycles)
    /\ cycles[i].pc = "pushing"
    /\ \E pushOk \in BOOLEAN :
         IF ~pushOk
         THEN cycleRejects(i, "ok", "failed")
         ELSE LET found == EvaluateCycle(cycles[i]) IN
              IF found.notifications # <<>>
              THEN /\ cycles' = [cycles EXCEPT ![i] = AlertingCycle(@)]
                   /\ lastEvent' = EvalEvent(cycles[i], "evaluate", "sendAlert", found)
                   /\ UNCHANGED <<activeTests, timers>>
              ELSE /\ cycles' = DropCycle(i)
                   /\ lastEvent' = EvalEvent(cycles[i], "cycle", "resolved", found)
                   /\ UNCHANGED <<activeTests, timers>>
    /\ UNCHANGED <<probe, started, latency_tests, now, lateWrites>>

\* mutant: sendAlert lets the error of its fetch through
alertSettlesPropagates(i) ==
    /\ i \in 1..Len(cycles)
    /\ cycles[i].pc = "alerting"
    /\ \E sent \in {"ok", "failed"} :
         lastEvent' = SettleEvent(cycles[i],
                                  IF sent = "ok" THEN "resolved" ELSE "rejected",
                                  "ok", "ok", TRUE, sent)
    /\ cycles' = DropCycle(i)
    /\ UNCHANGED <<probe, activeTests, timers, started, latency_tests, now, lateWrites>>

\* sendAlert's fetch settles for the i-th call in flight: a failure is logged
\* and swallowed, and the promise of testEndpoint resolves either way
alertSettles(i) ==
    /\ i \in 1..Len(cycles)
    /\ cycles[i].pc = "alerting"
    /\ \E sent \in {"ok", "failed"} :
         lastEvent' = SettleEvent(cycles[i], "resolved", "ok", "ok", TRUE, sent)
    /\ cycles' = DropCycle(i)
    /\ UNCHANGED <<probe, activeTests, timers, started, latency_tests, now, lateWrites>>

\* time passes
Tick ==
    /\ now < MaxTime
    /\ now' = now + 1
    /\ lastEvent' = NoEvent
    /\ UNCHANGED <<probe, activeTests, timers, started, cycles, latency_tests,
                   lateWrites>>

\* construction: the threshold map is loaded from the alert_thresholds table
Init ==
    /\ probe = IdleProbe
    /\ SchedInit
    /\ alert_thresholds \in StoredThresholds
    /\ alertThresholds = loadAlertThresholds(alert_thresholds)

Next ==
    \/ \E url \in Urls, options \in SchedOptions :
          startMonitoring(url, options) /\ UNCHANGED alertVars
    \/ \E url \in Urls : stopMonitoring(url) /\ UNCHANGED alertVars
    \/ close /\ UNCHANGED alertVars
    \/ \E t \in timers : timerFires(t) /\ UNCHANGED alertVars
    \/ \E i \in 1..MaxCycles : probeSettles(i) /\ UNCHANGED alertVars
    \/ \E i \in 1..MaxCycles : pushSettles(i) /\ UNCHANGED alertVars
    \/ \E i \in 1..MaxCycles : alertSettles(i) /\ UNCHANGED alertVars
    \/ Tick /\ UNCHANGED alertVars

Spec == Init /\ [][Next]_vars

(***************************************************************************)
(* SpecLive: the scheduler with timers that keep firing.  The calls a      *)
(* timer makes are not counted; to keep the calls in flight bounded the    *)
(* model lets a timer fire when no call for its url is in flight.  Every   *)
(* fetch settles and every armed timer fires again.                        *)
(***************************************************************************)
InFlight(url) == \E i \in 1..Len(cycles) : cycles[i].url = url

\* an armed timer fires: its callback calls testEndpoint(url, normalizedOptions)
intervalElapses(t) ==
    /\ t \in timers
    /\ ~InFlight(t.url)
    /\ cycles' = Append(cycles, NewCycle(t.url, t.options, "timer"))
    /\ lastEvent' = NoEvent
    /\ UNCHANGED <<probe, activeTests, timers, started, latency_tests, now,
                   lateWrites, alertVars>>

\* the timer of url fires
TimerCycleBegins(url) == \E t \in timers : t.url = url /\ intervalElapses(t)

\* a step of a call of url in flight
ProbeSettlesFor(url) ==
    \E i \in 1..Len(cycles) :
        cycles[i].url = url /\ probeSettles(i) /\ UNCHANGED alertVars

PushSettlesFor(url) ==
    \E i \in 1..Len(cycles) :
        cycles[i].url = url /\ pushSettles(i) /\ UNCHANGED alertVars

AlertSettlesFor(url) ==
    \E i \in 1..Len(cycles) :
        cycles[i].url = url /\ alertSettles(i) /\ UNCHANGED alertVars

NextLive ==
    \/ \E url \in Urls, options \in SchedOptions :
          startMonitoring(url, options) /\ UNCHANGED alertVars
    \/ \E url \in Urls : stopMonitoring(url) /\ UNCHANGED alertVars
    \/ close /\ UNCHANGED alertVars
    \/ \E url \in Urls : TimerCycleBegins(url)
    \/ \E url \in Urls : ProbeSettlesFor(url)
    \/ \E url \in Urls : PushSettlesFor(url)
    \/ \E url \in Urls : AlertSettlesFor(url)
    \/ Tick /\ UNCHANGED alertVars

SpecLive ==
    /\ Init
    /\ [][NextLive]_vars
    /\ \A url \in Urls :
          /\ WF_vars(TimerCycleBegins(url))
          /\ WF_vars(ProbeSettlesFor(url))
          /\ WF_vars(PushSettlesFor(url))
          /\ WF_vars(AlertSettlesFor(url))

(***************************************************************************)
(* SpecRace: the thresholds of the down endpoint u2 are set and removed    *)
(* while it is monitored and its cycles are in flight.                     *)
(***************************************************************************)
NextRace ==
    \/ \E options \in SchedOptions :
          startMonitoring("u2", options) /\ UNCHANGED alertVars
    \/ \E t \in timers : timerFires(t) /\ UNCHANGED alertVars
    \/ \E i \in 1..MaxCycles : probeSettles(i) /\ UNCHANGED alertVars
    \/ \E i \in 1..MaxCycles : pushSettles(i) /\ UNCHANGED alertVars
    \/ \E i \in 1..MaxCycles : alertSettles(i) /\ UNCHANGED alertVars
    \/ \E threshold \in ThresholdsFor("u2") : setAlertThreshold(threshold, TRUE)
    \/ removeAlertThreshold("u2", TRUE)

SpecRace == Init /\ [][NextRace]_vars

(***************************************************************************)
(* SpecProbe: performTest called once with any options.                    *)
(***************************************************************************)
ProbeAttempt ==
    /\ probe.pc = "fetch"
    /\ \E o \in Outcomes : probe' = AttemptStep(probe, o)
    /\ UNCHANGED schedVars

ProbeRetryDelay ==
    /\ probe.pc = "retryDelay"
    /\ probe' = RetryDelayStep(probe)
    /\ UNCHANGED schedVars

InitProbeSpec ==
    /\ probe \in {InitProbe(options) : options \in MonitoringOptions}
    /\ SchedInit
    /\ alert_thresholds = {}
    /\ alertThresholds = loadAlertThresholds(alert_thresholds)

NextProbe == ProbeAttempt \/ ProbeRetryDelay

SpecProbe == InitProbeSpec /\ [][NextProbe]_vars

\* the event loop runs every settled fetch and every expired sleep
SpecProbeFair == SpecProbe /\ WF_vars(ProbeAttempt) /\ WF_vars(ProbeRetryDelay)

(***************************************************************************)
(* SpecAlert: thresholds are set and removed while testEndpoint calls      *)
(* store results of any latency and outcome and evaluate them.             *)
(***************************************************************************)
Latencies == {100, 500}

\* the results performTest returns in this specification: any latency and
\* outcome for u1, the failures of the down endpoint for u2
TestResults ==
    {[endpoint |-> "u1", latency |-> l, status |-> IF ok THEN 200 ELSE 0, success |-> ok] :
        l \in Latencies, ok \in BOOLEAN}
    \cup {[endpoint |-> "u2", latency |-> TargetLatency("u2"), status |-> 0,
            success |-> FALSE]}

\* a testEndpoint call whose performTest has returned `result` (its timestamp
\* is taken now): storeResult writes the row, pushMetrics issues its fetch
storeResult(result) ==
    /\ started < MaxCycles
    /\ latency_tests' = InsertOrReplace(latency_tests,
           [timestamp |-> now, endpoint |-> result.endpoint,
            latency |-> result.latency, status |-> result.status,
            success |-> result.success])
    /\ cycles' = Append(cycles, [url |-> result.endpoint, origin |-> "timer",
                                 pc |-> "pushing", timestamp |-> now])
    /\ started' = started + 1
    /\ lastEvent' = NoEvent
    /\ UNCHANGED <<probe, activeTests, timers, now, lateWrites, alertVars>>

\* time passes
AlertTick ==
    /\ now < AlertMaxTime
    /\ now' = now + 1
    /\ lastEvent' = NoEvent
    /\ UNCHANGED <<probe, activeTests, timers, started, cycles, latency_tests,
                   lateWrites, alertVars>>

\* the thresholds of u1 are managed while results are evaluated; the durable
\* writes succeed
NextAlert ==
    \/ \E threshold \in ThresholdsFor("u1") : setAlertThreshold(threshold, TRUE)
    \/ removeAlertThreshold("u1", TRUE)
    \/ \E result \in TestResults : storeResult(result)
    \/ \E i \in 1..MaxCycles : pushSettles(i) /\ UNCHANGED alertVars
    \/ \E i \in 1..MaxCycles : alertSettles(i) /\ UNCHANGED alertVars
    \/ AlertTick

SpecAlert == Init /\ [][NextAlert]_vars

(***************************************************************************)
(* SpecThreshold: the threshold operations alone, on every endpoint, with  *)
(* durable writes that succeed or throw.                                   *)
(***************************************************************************)
NextThreshold ==
    \/ \E url \in Urls, dbOk \in BOOLEAN : \E threshold \in ThresholdsFor(url) :
          setAlertThreshold(threshold, dbOk)
    \/ \E url \in Urls, dbOk \in BOOLEAN : removeAlertThreshold(url, dbOk)

SpecThreshold == Init /\ [][NextThreshold]_vars

(***************************************************************************)
(* Claims about performTest, checked under SpecProbe.                      *)
(***************************************************************************)
ProbeReturned == probe.pc = "returned"

\* the attempt counts as failed: network error, timeout, status mismatch,
\* body-decoding failure, validator returning false or throwing
AttemptFailed(options, o) == ~AttemptSuccess(options, o)

EveryAttemptFailed ==
    \A k \in 1..Len(probe.log) : AttemptFailed(probe.options, probe.log[k])

\* C4: against a target whose every attempt fails, a probe with retryCount n
\* makes exactly n+1 attempts and returns success=false with status=0.
C4_FailingTargetExhaustsRetries ==
    (ProbeReturned /\ EveryAttemptFailed) =>
        /\ Len(probe.log) = probe.options.retryCount + 1
        /\ probe.success = FALSE
        /\ probe.status = 0

\* C5: with a validator that always returns false the probe makes all
\* retryCount+1 attempts before it returns success=false.
C5_RejectingValidatorExhaustsRetries ==
    (ProbeReturned /\ probe.options.validateResponse = "rejectAll") =>
        /\ Len(probe.log) = probe.options.retryCount + 1
        /\ probe.success = FALSE

\* C10: performTest never throws; a probe whose last attempt hit a network
\* error, a timeout, a status mismatch, a body-decoding failure or a validator
\* failure ends in a returned result with success=false.
C10_PerformTestNeverThrows ==
    /\ probe.pc # "thrown"
    /\ (ProbeReturned /\ AttemptFailed(probe.options, probe.log[Len(probe.log)]))
          => probe.success = FALSE

\* a probe that met a network error, a timeout and a throwing validator, and
\* returned
C10_Witness ==
    /\ ProbeReturned
    /\ probe.options.validateResponse = "throws"
    /\ Len(probe.log) = 3
    /\ probe.log[1].kind = "neterr"
    /\ probe.log[2].kind = "timeout"
    /\ probe.log[3].kind = "response"
    /\ probe.success = FALSE

(***************************************************************************)
(* Claims about the scheduler, checked under Spec.                          *)
(***************************************************************************)
SessionArmed(url) ==
    /\ url \in DOMAIN activeTests
    /\ \E t \in timers : t.id = activeTests[url] /\ t.url = url

ProbingInitial(url) ==
    \E i \in 1..Len(cycles) :
        cycles[i].url = url /\ cycles[i].origin = "initial" /\ cycles[i].pc = "probing"

\* C1: startMonitoring on a url that has a session fails with "already
\* monitoring" and changes neither the session table, nor any timer or its
\* options, nor the cycles in flight, nor the stored results.
C1_DuplicateStartChangesNothing ==
    [][\A url \in Urls, options \in SchedOptions :
         (url \in DOMAIN activeTests /\ startMonitoring(url, options)) =>
            /\ lastEvent' = CallEvent("start", url, "already monitoring")
            /\ UNCHANGED <<activeTests, timers, started, cycles, latency_tests>>]_vars

\* a second Start was refused while the first one's initial probe was in flight
C1_Witness ==
    \E url \in Urls :
        /\ lastEvent = CallEvent("start", url, "already monitoring")
        /\ SessionArmed(url)
        /\ ProbingInitial(url)

\* C2: every armed timer is the one the session table records for its
\* endpoint, so each endpoint has at most one armed timer.
C2_OneArmedTimerPerSession ==
    /\ \A t \in timers : t.url \in DOMAIN activeTests /\ activeTests[t.url] = t.id
    /\ \A url \in Urls : Cardinality({t \in timers : t.url = url}) =< 1

\* both endpoints monitored, a duplicate Start just refused, before any
\* initial probe has finished
C2_Witness ==
    /\ \A url \in Urls : SessionArmed(url) /\ ProbingInitial(url)
    /\ Cardinality(timers) = 2
    /\ lastEvent.outcome = "already monitoring"

\* C3: two cycles of the same endpoint are never in progress together.
C3_CyclesNeverOverlap ==
    \A i, j \in 1..Len(cycles) : i # j => cycles[i].url # cycles[j].url

\* C6: a cycle whose telemetry push failed still evaluates the result and
\* completes without error.
C6_PushFailureContained ==
    lastEvent.pushed = "failed" =>
        /\ lastEvent.outcome = "resolved"
        /\ lastEvent.evaluated

\* C7: only stopMonitoring and close cancel a timer or remove or replace a
\* session; no step of a cycle, failing or not, does.
C7_OnlyStopAndCloseRemoveSessions ==
    [][(\/ \E url \in DOMAIN activeTests :
             url \notin DOMAIN activeTests' \/ activeTests'[url] # activeTests[url]
        \/ \E t \in timers : t \notin timers')
       => (close \/ \E url \in Urls : stopMonitoring(url))]_vars

\* a cycle has just failed (store, push or notification) and both endpoints
\* are still monitored
C7_Witness ==
    /\ lastEvent.kind = "cycle"
    /\ lastEvent.outcome = "rejected" \/ lastEvent.notified = "failed"
    /\ \A url \in Urls : SessionArmed(url)

\* C8: stopMonitoring and close leave the endpoint without a session and do
\* not touch the cycles in flight; a cycle for an endpoint without a session
\* begins only in startMonitoring.
C8_NoNewCycleAfterStop ==
    [][/\ \A url \in Urls :
            stopMonitoring(url) => (url \notin DOMAIN activeTests' /\ cycles' = cycles)
       /\ close => (activeTests' = <<>> /\ cycles' = cycles)
       /\ started' # started =>
            LET c == cycles'[Len(cycles')] IN
            \/ c.url \in DOMAIN activeTests
            \/ c.origin = "initial" /\ c.url \in DOMAIN activeTests']_vars

\* Stop or Shutdown has completed while a cycle of the endpoint is in flight
C8_Witness ==
    /\ lastEvent.kind \in {"stop", "close"}
    /\ \E i \in 1..Len(cycles) :
          /\ cycles[i].url \notin DOMAIN activeTests
          /\ \A t \in timers : t.url # cycles[i].url

\* C9: stopMonitoring raises no error, changes nothing when the endpoint has
\* no session, and leaves the endpoint without a session, so that a second
\* Stop finds the no-session case and changes nothing more.
C9_StopIsIdempotent ==
    [][\A url \in Urls :
         stopMonitoring(url) =>
            /\ lastEvent' = CallEvent("stop", url, "ok")
            /\ url \notin DOMAIN activeTests'
            /\ url \notin DOMAIN activeTests =>
                   UNCHANGED <<activeTests, timers, started, cycles, latency_tests>>]_vars

\* Stop was called on u2, which never had a session, while u1 is monitored
C9_Witness ==
    /\ lastEvent = CallEvent("stop", "u2", "ok")
    /\ started = 1
    /\ SessionArmed("u1")

\* C11: a cycle whose storeResult failed ends in an error delivered to its
\* caller, without a push and without an evaluation; the row is not written
\* and only that cycle ends.
C11_StoreFailurePropagates ==
    [][lastEvent'.stored = "failed" =>
          /\ lastEvent'.kind = "cycle"
          /\ lastEvent'.outcome = "rejected"
          /\ lastEvent'.origin \in {"initial", "timer"}
          /\ lastEvent'.pushed = "no"
          /\ ~lastEvent'.evaluated
          /\ lastEvent'.notified = "no"
          /\ Len(cycles') = Len(cycles) - 1
          /\ UNCHANGED <<latency_tests, activeTests, timers>>]_vars

\* the store write of a timer cycle has just failed, its endpoint is still
\* monitored
C11_Witness ==
    /\ lastEvent.stored = "failed"
    /\ lastEvent.origin = "timer"
    /\ lastEvent.outcome = "rejected"
    /\ SessionArmed(lastEvent.url)

\* C12: when the delivery of a notification fails, the cycle still resolves
\* with its result, and the stored results, the sessions, the timers and the
\* thresholds are unchanged.
C12_NotificationFailureSwallowed ==
    [][\A i \in 1..MaxCycles :
         (alertSettles(i) /\ lastEvent'.notified = "failed") =>
            /\ lastEvent'.outcome = "resolved"
            /\ lastEvent'.evaluated
            /\ UNCHANGED <<latency_tests, activeTests, timers, alertThresholds,
                           alert_thresholds>>]_vars

\* a notification for the monitored endpoint u2 has just failed, with results
\* stored and a threshold in the table
C12_Witness ==
    /\ lastEvent.kind = "cycle"
    /\ lastEvent.notified = "failed"
    /\ lastEvent.outcome = "resolved"
    /\ SessionArmed("u2")
    /\ "u2" \in DOMAIN alertThresholds
    /\ \E r \in latency_tests : r.endpoint = "u2"

\* getActiveEndpoints()
getActiveEndpoints == DOMAIN activeTests

InitialInFlight(url) ==
    \E i \in 1..Len(cycles) : cycles[i].url = url /\ cycles[i].origin = "initial"

\* C17: a url whose Start is still in progress (its initial cycle is in
\* flight) is not among the active endpoints.
C17_ListedOnlyAfterStart ==
    \A url \in getActiveEndpoints : ~InitialInFlight(url)

\* C18: after Stop(url) or Shutdown at most one more row is written for url.
C18_AtMostOneLateWrite ==
    \A url \in Urls : lateWrites[url] =< 1

\* C19: the timer of a session is armed only once the initial cycle of its
\* Start has completed.
C19_TimerArmedAfterInitialCycle ==
    \A t \in timers : ~InitialInFlight(t.url)

(***************************************************************************)
(* Claims about the thresholds and their evaluation.                       *)
(***************************************************************************)
\* checkAlertThresholds ran in the last step, for the result of
\* (lastEvent.url, lastEvent.timestamp)
JustEvaluated ==
    /\ lastEvent.kind \in {"evaluate", "cycle"}
    /\ lastEvent.evaluated
    /\ lastEvent.notified = "no"

\* the stored results of the endpoint just evaluated that lie in the window of
\* its threshold
EvaluatedWindow ==
    {r \in latency_tests :
        /\ r.endpoint = lastEvent.url
        /\ r.timestamp >= lastEvent.timestamp - alertThresholds[lastEvent.url].windowSize}

Reported(alert) == \E k \in 1..Len(lastEvent.alerts) : lastEvent.alerts[k] = alert

\* C13: an evaluation reports a latency breach exactly when the endpoint's
\* threshold has maxLatency set and the average latency of the stored results
\* in the window is strictly greater than maxLatency.
C13_LatencyBreachExact ==
    JustEvaluated =>
        (Reported("High latency") <=>
            /\ lastEvent.url \in DOMAIN alertThresholds
            /\ alertThresholds[lastEvent.url].maxLatency.kind = "number"
            /\ SumLatency(EvaluatedWindow) >
                 alertThresholds[lastEvent.url].maxLatency.value
                    * Cardinality(EvaluatedWindow))

\* latencies 100 (t=0) and 500 (t=1) inside a window of 2 with maxLatency 200:
\* the evaluation at t=1 reported the breach
C13_Witness ==
    /\ JustEvaluated
    /\ lastEvent.url = "u1"
    /\ lastEvent.timestamp = 1
    /\ alertThresholds = [e \in {"u1"} |->
                             AlertThreshold("u1", Num(200), Undefined, 2, "hook")]
    /\ {[t |-> r.timestamp, l |-> r.latency, s |-> r.success] : r \in latency_tests}
          = {[t |-> 0, l |-> 100, s |-> TRUE], [t |-> 1, l |-> 500, s |-> FALSE]}
    /\ lastEvent.alerts = <<"High latency">>

\* the evaluation found a threshold and at least one result in its window, so
\* that the window has a success rate
RateDefined ==
    lastEvent.url \in DOMAIN alertThresholds => EvaluatedWindow # {}

\* C14: an evaluation over a window that holds results reports a success-rate
\* breach exactly when the endpoint's threshold has minSuccessRate set and
\* successes / results in the window is strictly less than it; 9 successes of
\* 10 against 0.9 is no breach, 8 of 10 is one.
C14_SuccessRateBreachExact ==
    /\ (JustEvaluated /\ RateDefined) =>
        (Reported("Low success rate") <=>
            /\ lastEvent.url \in DOMAIN alertThresholds
            /\ alertThresholds[lastEvent.url].minSuccessRate.kind = "number"
            /\ Cardinality({r \in EvaluatedWindow : r.success}) * 100 <
                 alertThresholds[lastEvent.url].minSuccessRate.value
                    * Cardinality(EvaluatedWindow))
    /\ ~SuccessRateBreach(AlertThreshold("u1", Undefined, Num(90), 2, "hook"),
                          [count |-> 10, sum |-> 1000, successes |-> 9])
    /\ SuccessRateBreach(AlertThreshold("u1", Undefined, Num(90), 2, "hook"),
                         [count |-> 10, sum |-> 1000, successes |-> 8])

\* one success and one failure in the window against minSuccessRate 0.5: the
\* rate equals the threshold and no success-rate breach was reported
C14_Witness ==
    /\ JustEvaluated
    /\ lastEvent.url \in DOMAIN alertThresholds
    /\ alertThresholds[lastEvent.url].minSuccessRate = Num(50)
    /\ Cardinality(EvaluatedWindow) = 2
    /\ Cardinality({r \in EvaluatedWindow : r.success}) = 1
    /\ ~Reported("Low success rate")

\* C15: an evaluation sends at most one notification: exactly one, with the
\* endpoint and every breach message, when there is a breach and the
\* threshold has a notificationUrl; none without a breach, without a
\* notificationUrl or without a threshold.
C15_AtMostOneNotification ==
    JustEvaluated =>
        /\ Len(lastEvent.notifications) =< 1
        /\ Len(lastEvent.notifications) = 1 <=>
              /\ lastEvent.url \in DOMAIN alertThresholds
              /\ Len(lastEvent.alerts) > 0
              /\ alertThresholds[lastEvent.url].notificationUrl \notin {"undefined", "null"}
        /\ \A k \in 1..Len(lastEvent.notifications) :
              /\ lastEvent.notifications[k].endpoint = lastEvent.url
              /\ lastEvent.notifications[k].alerts = lastEvent.alerts
              /\ lastEvent.notifications[k].webhookUrl =
                    alertThresholds[lastEvent.url].notificationUrl
        /\ (Reported("High latency") /\ Reported("Low success rate"))
              => Len(lastEvent.alerts) = 2

\* both conditions were breached and one notification carries both messages
C15_Witness ==
    /\ JustEvaluated
    /\ lastEvent.kind = "evaluate"
    /\ Len(lastEvent.notifications) = 1
    /\ lastEvent.notifications[1].alerts = <<"High latency", "Low success rate">>
    /\ \E i \in 1..Len(cycles) : cycles[i].pc = "alerting"

\* C16: setAlertThreshold makes its threshold the one of its endpoint,
\* replacing any earlier one, removeAlertThreshold leaves its endpoint without
\* one, neither touches another endpoint's threshold, and removing where there
\* is none changes nothing and raises no error unless the durable delete
\* itself fails; each endpoint has at most one threshold and one row.
C16_OneThresholdPerEndpoint ==
    [][/\ \A url \in Urls, dbOk \in BOOLEAN : \A threshold \in ThresholdsFor(url) :
            setAlertThreshold(threshold, dbOk) =>
               /\ getAlertThreshold(url)' = {threshold}
               /\ \A other \in Urls \ {url} :
                     getAlertThreshold(other)' = getAlertThreshold(other)
       /\ \A url \in Urls, dbOk \in BOOLEAN :
            removeAlertThreshold(url, dbOk) =>
               /\ getAlertThreshold(url)' = {}
               /\ \A other \in Urls \ {url} :
                     getAlertThreshold(other)' = getAlertThreshold(other)
               /\ getAlertThreshold(url) = {} =>
                     /\ alertThresholds' = alertThresholds
                     /\ dbOk => lastEvent'.outcome = "ok"
       /\ \A url \in Urls :
            /\ Cardinality(getAlertThreshold(url)') =< 1
            /\ Cardinality({r \in alert_thresholds' : r.endpoint = url}) =< 1]_vars

\* u1's threshold was set and removed again, u2 keeps the one set for it
C16_Witness ==
    /\ lastEvent = CallEvent("removeAlertThreshold", "u1", "ok")
    /\ getAlertThreshold("u1") = {}
    /\ getAlertThreshold("u2") \subseteq ThresholdsFor("u2")
    /\ getAlertThreshold("u2") # {}
    /\ \A r \in alert_thresholds : r.endpoint = "u2"

(***************************************************************************)
(* More claims about performTest, checked under SpecProbe.                 *)
(***************************************************************************)
\* the same probe against the same responses with a validator that returns
\* false where this one throws
RejectingTwin ==
    RunProbe(InitProbe([probe.options EXCEPT !.validateResponse = "rejectAll"]),
             probe.log)

\* C20: a probe whose validator throws ends as the same probe would with a
\* validator returning false: same number of attempts, same success, same
\* status; and the exception does not reach the caller.
C20_ThrowingValidatorLikeFalse ==
    (probe.options.validateResponse = "throws" /\ probe.pc \in {"returned", "thrown"}) =>
        /\ probe.pc = "returned"
        /\ RejectingTwin.pc = "returned"
        /\ Len(RejectingTwin.log) = Len(probe.log)
        /\ RejectingTwin.success = probe.success
        /\ RejectingTwin.status = probe.status

\* C22: every probe terminates: performTest returns, after at most
\* retryCount+1 attempts, also against a target that never answers or that
\* stalls after its response headers.
C22_ProbeTerminates ==
    <>(probe.pc = "returned" /\ Len(probe.log) =< probe.options.retryCount + 1)

\* the deciding attempt of a returned probe
LastAttempt == probe.log[Len(probe.log)]

\* the validator, when supplied, returned true on the decoded body
ValidatorAccepts(options, body) ==
    \/ options.validateResponse = "none"
    \/ options.validateResponse = "acceptAll" /\ body \in {"good", "bad"}
    \/ options.validateResponse = "bodyGood" /\ body = "good"

\* the attempt got a response of the wanted status that the validator accepts
Successful(options, o) ==
    /\ o.kind = "response"
    /\ IF options.expectedStatusCode # 0
       THEN o.status = options.expectedStatusCode
       ELSE o.status \in 200..299
    /\ ValidatorAccepts(options, o.body)

\* C24: a result has success=true exactly when its deciding attempt's
\* response has the expected status (2xx when none is configured) and the
\* validator, if any, returned true on its body; a successful attempt is the
\* last one, is followed by no retry delay, and gives the result its status.
C24_SuccessExact ==
    /\ ProbeReturned =>
          /\ probe.success <=> Successful(probe.options, LastAttempt)
          /\ probe.success => probe.status = LastAttempt.status
    /\ \A k \in 1..Len(probe.log) :
          Successful(probe.options, probe.log[k]) =>
             /\ k = Len(probe.log)
             /\ probe.pc = "returned"

\* a probe that succeeded on its second attempt, on the expected status 404
\* and a body its validator accepts
C24_Witness ==
    /\ ProbeReturned
    /\ probe.success
    /\ probe.status = 404
    /\ probe.options.retryCount = 2
    /\ probe.options.validateResponse = "bodyGood"
    /\ Len(probe.log) = 2
    /\ probe.log[1].kind = "neterr"

\* the attempt ended in an exception: network error, abort on timeout,
\* body-decoding failure or validator exception (the body is decoded only
\* when the status passed and a validator is supplied)
EndedInException(options, o) ==
    \/ o.kind \in {"neterr", "timeout"}
    \/ /\ o.kind = "response"
       /\ options.validateResponse # "none"
       /\ IF options.expectedStatusCode # 0
          THEN o.status = options.expectedStatusCode
          ELSE o.status \in 200..299
       /\ o.body = "nonjson" \/ (options.validateResponse = "throws" /\ o.body # "stalled")

\* C29: a result has status 0 only if all retryCount+1 attempts ended in an
\* exception; an attempt that gets its response without an exception ends the
\* probe, and the result carries that response's status.
C29_StatusZeroOnlyAfterExceptions ==
    /\ (ProbeReturned /\ probe.status = 0) =>
          /\ Len(probe.log) = probe.options.retryCount + 1
          /\ \A k \in 1..Len(probe.log) : EndedInException(probe.options, probe.log[k])
    /\ \A k \in 1..Len(probe.log) :
          (~EndedInException(probe.options, probe.log[k]) /\ probe.pc # "readingBody") =>
             /\ k = Len(probe.log)
             /\ probe.pc = "returned"
             /\ probe.status = probe.log[k].status

\* a probe with two retries that returned status 0 after a timeout, a body that
\* is not JSON and a network error
C29_Witness ==
    /\ ProbeReturned
    /\ probe.status = 0
    /\ Len(probe.log) = 3
    /\ probe.log[1].kind = "timeout"
    /\ probe.log[2].kind = "response" /\ probe.log[2].body = "nonjson"
    /\ probe.log[3].kind = "neterr"

\* C21: an evaluation whose window holds no result of the endpoint reports no
\* breach and sends no notification.
C21_EmptyWindowNoBreach ==
    (/\ JustEvaluated
     /\ lastEvent.url \in DOMAIN alertThresholds
     /\ EvaluatedWindow = {}) =>
        /\ lastEvent.alerts = <<>>
        /\ lastEvent.notifications = <<>>

\* C23: a cycle that has ended evaluated its result only after storing and
\* exporting it, exported it only after storing it, and evaluated every
\* result it stored.
C23_StoredResultsEvaluated ==
    lastEvent.kind = "cycle" =>
        /\ lastEvent.evaluated => (lastEvent.stored = "ok" /\ lastEvent.pushed = "ok")
        /\ lastEvent.pushed # "no" => lastEvent.stored = "ok"
        /\ lastEvent.stored = "ok" => lastEvent.evaluated

\* C25: the threshold map equals what loadAlertThresholds builds from the
\* alert_thresholds table, after every operation, failed durable writes
\* included.
C25_MapMirrorsTable ==
    alertThresholds = loadAlertThresholds(alert_thresholds)

\* the timestamps of the stored results of url
StoredTimestamps(url) == {r.timestamp : r \in {x \in latency_tests : x.endpoint = url}}

\* C26: no two stored results share (endpoint, timestamp): every endpoint has
\* as many rows as distinct timestamps; a write keeps every (endpoint,
\* timestamp) stored before and adds its own, replacing the row of that pair.
C26_UniqueEndpointTimestamp ==
    [][/\ \A url \in Urls :
            /\ Cardinality({r \in latency_tests' : r.endpoint = url})
                  = Cardinality(StoredTimestamps(url)')
            /\ StoredTimestamps(url) \subseteq StoredTimestamps(url)'
       /\ \A result \in TestResults :
            storeResult(result) =>
               /\ StoredTimestamps(result.endpoint)'
                     = StoredTimestamps(result.endpoint) \cup {now}
               /\ \E r \in latency_tests' :
                     /\ r.endpoint = result.endpoint /\ r.timestamp = now
                     /\ r.latency = result.latency /\ r.success = result.success]_vars

\* two results for u1 were written in the same millisecond, by two calls still
\* in flight, and one row is stored
C26_Witness ==
    /\ Len(cycles) = 2
    /\ \A i \in 1..2 : cycles[i].url = "u1" /\ cycles[i].timestamp = 0
                         /\ cycles[i].pc = "pushing"
    /\ Cardinality(latency_tests) = 1

\* C28: startMonitoring on a url without a session records the session and
\* arms its timer in the same step that starts the initial cycle; when that
\* cycle fails, Start's caller gets the error and the session and its timer
\* stay; a later Start of the url is refused with "already monitoring", and
\* only stopMonitoring or close end the session.
C28_FailedStartKeepsSession ==
    [][/\ \A url \in Urls, options \in SchedOptions :
            startMonitoring(url, options) =>
               IF url \in DOMAIN activeTests
               THEN lastEvent'.outcome = "already monitoring"
               ELSE /\ lastEvent'.outcome = "promise"
                    /\ SessionArmed(url)'
                    /\ cycles'[Len(cycles')].url = url
                    /\ cycles'[Len(cycles')].origin = "initial"
                    /\ cycles'[Len(cycles')].pc = "probing"
       /\ (/\ lastEvent'.kind = "cycle"
           /\ lastEvent'.origin = "initial"
           /\ lastEvent'.outcome = "rejected") =>
               /\ lastEvent'.stored = "failed" \/ lastEvent'.pushed = "failed"
               /\ UNCHANGED <<activeTests, timers>>
       /\ \A url \in Urls :
            (SessionArmed(url) /\ ~SessionArmed(url)') =>
               (stopMonitoring(url) \/ close)]_vars

\* the only Start so far failed without storing its result, its session is
\* still armed, and a second Start of the url has just been refused
C28_Witness ==
    \E url \in Urls :
        /\ lastEvent = CallEvent("start", url, "already monitoring")
        /\ started = 1
        /\ cycles = <<>>
        /\ latency_tests = {}
        /\ SessionArmed(url)

\* C27: if from some point on url keeps its session, its timer begins a cycle
\* again and again, whatever the earlier cycles ended with.
C27_ActiveSessionKeepsCycling ==
    \A url \in Urls :
        <>[](url \in DOMAIN activeTests) => []<><<TimerCycleBegins(url)>>_vars

\* a timer cycle of a monitored endpoint has just failed, after results of
\* two earlier cycles were stored, and the timer is still armed
C27_Witness ==
    \E url \in Urls :
        /\ lastEvent.kind = "cycle"
        /\ lastEvent.url = url
        /\ lastEvent.origin = "timer"
        /\ lastEvent.outcome = "rejected"
        /\ SessionArmed(url)
        /\ started = 1
        /\ Cardinality({r \in latency_tests : r.endpoint = url}) >= 2

\* the threshold the evaluation of the last step should have used: the one in
\* the table now (an evaluation does not change the table)
CurrentThreshold == getAlertThreshold(lastEvent.url)

\* C30: an evaluation decides on the threshold in the table when it runs, not
\* on the one its call saw when it began: without a threshold now it reports
\* and sends nothing, with one it sends to that threshold's notificationUrl
\* exactly when that threshold is breached; and removeAlertThreshold leaves
\* the endpoint without a threshold until the next setAlertThreshold.
C30_EvaluationUsesCurrentThreshold ==
    [][/\ JustEvaluated' =>
            IF CurrentThreshold' = {}
            THEN lastEvent'.alerts = <<>> /\ lastEvent'.notifications = <<>>
            ELSE \A threshold \in CurrentThreshold' :
                   LET alerts == Alerts(threshold,
                                   recentTests(latency_tests', lastEvent'.url,
                                       lastEvent'.timestamp - threshold.windowSize))
                   IN /\ lastEvent'.alerts = alerts
                      /\ lastEvent'.notifications =
                            Notifications(lastEvent'.url, alerts,
                                          threshold.notificationUrl)
       /\ removeAlertThreshold("u2", TRUE) => getAlertThreshold("u2")' = {}
       /\ (getAlertThreshold("u2") = {} /\ getAlertThreshold("u2")' # {}) =>
            \E threshold \in ThresholdsFor("u2") : setAlertThreshold(threshold, TRUE)]_vars

\* a threshold set while the probe of a cycle was in flight (the call began
\* without one) has just produced that cycle's notification
C30_Witness ==
    /\ JustEvaluated
    /\ lastEvent.seen = {}
    /\ lastEvent.notifications # <<>>
    /\ CurrentThreshold # {}

====
